---- MODULE Spec2Model ----
(***************************************************************************)
(* A model of scripts/scan_network.py: the paginated account_tx fetch      *)
(* loop, the reward aggregation with its balance enrichment and            *)
(* leaderboard, and the run of main over the one websocket connection.     *)
(*                                                                         *)
(* Amounts are carried in drops (minor units); the division by 1,000,000   *)
(* of parse_pft_amount is applied for presentation only, so sums are exact *)
(* integers here and binary floating-point drift is outside the model.     *)
(***************************************************************************)
EXTENDS Integers, Sequences, FiniteSets, TLC

VARIABLES
    pc,           \* position of the single coroutine
    max_txs,      \* args.max_txs / the max_txs parameter
    output,       \* args.output: "stdout", "file_ok" or "file_bad"
    account,      \* fetch_all_account_tx: the account parameter
    all_txs,      \* fetch_all_account_tx: the accumulated list
    marker,       \* fetch_all_account_tx: the current marker
    ws_pending,   \* requests sent on ws and not yet answered
    reqLog,       \* history: every payload sent, in order
    respLog,      \* history: every result received, in order
    acctIdx,      \* main: index of the account being fetched (1..5)
    ledger_index, \* main: ledger_current_index
    reward_txs,   \* main: reward_txs / analyze_reward_transactions: txs
    memo_txs,     \* main: memo_txs
    agg,          \* analyze_reward_transactions: accumulators after the loop
    bal_i,        \* analyze_reward_transactions: index of the balance loop
    balances,     \* analyze_reward_transactions: balances, in lookup order
    rewards,      \* analyze_reward_transactions: the returned summary
    primary_out,  \* the reports written to the file / standard output
    failure,      \* "none", "connect", "transport" or "output": why the run died
    srv           \* the ledger node: "any", or the number of a fixed ledger (a record)

vars == <<pc, max_txs, output, account, all_txs, marker, ws_pending, reqLog,
          respLog, acctIdx, ledger_index, reward_txs, memo_txs, agg, bal_i,
          balances, rewards, primary_out, failure, srv>>

fetchVars == <<account, all_txs, marker>>
mainVars == <<acctIdx, ledger_index, reward_txs, memo_txs, primary_out>>
analyzeVars == <<agg, bal_i, balances, rewards>>

(***************************************************************************)
(* Bounds of the model.                                                    *)
(***************************************************************************)
MaxCap == 3        \* max_txs ranges over -1 .. MaxCap in the fetch model
MaxPage == 2       \* the server returns pages of 0 .. MaxPage records
MaxTxs == 2        \* the analysed sample lists hold 0 .. MaxTxs transactions
MaxRecip == 27     \* the ranked lists pay 0 .. MaxRecip distinct recipients
NumLedgers == 3    \* the fixed ledgers the ranked lists are looked up in

(***************************************************************************)
(* Program constants.                                                      *)
(***************************************************************************)
RIPPLE_EPOCH == 946684800
PAGE_LIMIT == 400
DROPS_PER_PFT == 1000000
TOP_N == 25

REWARD_ADDRESSES ==
    << "rGBKxoTcavpfEso7ASRELZAMcCMqKa8oFk",
       "rKt4peDozpRW9zdYGiTZC54DSNU3Af6pQE",
       "rJNwqDPKSkbqDPNoNxbW6C3KCS84ZaQc96",
       "rKddMw1hqMGwfgJvzjbWQHtBQT8hDcZNCP" >>

MEMO_ADDRESS == "rwdm72S9YVKkZjeADKU2bbUMuY4vPnSfH7"

SYSTEM_ACCOUNTS ==
    {REWARD_ADDRESSES[i] : i \in DOMAIN REWARD_ADDRESSES}
        \cup {MEMO_ADDRESS, "rrrrrrrrrrrrrrrrrrrrrhoLvTp"}

(***************************************************************************)
(* Python values.  None stands for Python's None and for an absent key     *)
(* read with dict.get; the empty string stands for any falsy value that is *)
(* present (an empty string, 0, an empty object).                          *)
(***************************************************************************)
None == "None"

Truthy(v) == v # None /\ v # ""

RECURSIVE Concat(_)
Concat(ss) == IF ss = <<>> THEN <<>> ELSE Head(ss) \o Concat(Tail(ss))

RECURSIVE SumSeq(_)
SumSeq(s) == IF s = <<>> THEN 0 ELSE Head(s) + SumSeq(Tail(s))

Last(s) == s[Len(s)]

(***************************************************************************)
(* rpc_call: send the payload, then await the response.  AwaitLabel is the *)
(* position the coroutine is suspended at until ws.recv() returns.         *)
(***************************************************************************)
NoAwait(site) == site

AwaitLabel(site) == site \o "_wait"

Payload(command, acct, limit, mk) ==
    [command |-> command, account |-> acct, limit |-> limit, marker |-> mk]

(***************************************************************************)
(* fetch_account_tx: the marker key is set only for a truthy marker.       *)
(***************************************************************************)
fetch_account_tx(acct, limit, mk) ==
    Payload("account_tx", acct, limit, IF Truthy(mk) THEN mk ELSE None)

(***************************************************************************)
(* fetch_all_account_tx.                                                   *)
(***************************************************************************)
LoopCondLeq(n, cap) == n <= cap

LoopCond(n, cap) == n < cap

\* while len(all_txs) < max_txs: issue the page request, else return
FetchLoop ==
    /\ pc = "fa_loop"
    /\ IF LoopCond(Len(all_txs), max_txs)
       THEN /\ ws_pending' = Append(ws_pending,
                                    fetch_account_tx(account, PAGE_LIMIT, marker))
            /\ reqLog' = Append(reqLog,
                                fetch_account_tx(account, PAGE_LIMIT, marker))
            /\ pc' = AwaitLabel("fa_loop")
       ELSE /\ pc' = "fa_return"
            /\ UNCHANGED <<ws_pending, reqLog>>
    /\ UNCHANGED <<max_txs, output, fetchVars, respLog, mainVars, analyzeVars,
                   failure, srv>>

StopOnMarkerNever(mk) == FALSE

\* if not marker: break
StopOnMarker(mk) == ~Truthy(mk)

\* the body of the loop after the response: lines 111-117
FetchHandle(result) ==
    IF result.transactions = <<>>
    THEN /\ pc' = "fa_return"
         /\ UNCHANGED <<all_txs, marker>>
    ELSE /\ all_txs' = all_txs \o result.transactions
         /\ marker' = result.marker
         /\ pc' = IF StopOnMarker(result.marker) THEN "fa_return" ELSE "fa_loop"

FetchRecv(result) ==
    /\ pc = "fa_loop_wait"
    /\ ws_pending # <<>>
    /\ Head(ws_pending).command = "account_tx"
    /\ ws_pending' = Tail(ws_pending)
    /\ respLog' = Append(respLog, result)
    /\ FetchHandle(result)
    /\ UNCHANGED <<max_txs, output, account, reqLog, mainVars, analyzeVars,
                   failure, srv>>

(***************************************************************************)
(* The server of the fetch model: any page of 0 .. MaxPage records, any    *)
(* marker.  A record is named by the request it answers and its place in   *)
(* the page.                                                               *)
(***************************************************************************)
Markers == {None, "", "m1", "m2"}

PageOf(n, k) == [i \in 1..k |-> [hash |-> <<n, i>>]]

(***************************************************************************)
(* Transactions.  A transaction is the "tx" object of an account_tx        *)
(* record; a field read with tx.get(key) is None when absent, date is 0    *)
(* when absent (tx.get("date", 0)).  An Amount is a tagged value: a string *)
(* (a sequence of characters), an integer, or any other JSON shape (an     *)
(* issued-currency object, a number with a fraction, null, absent).        *)
(***************************************************************************)
StrAmount(chars) == [t |-> "str", s |-> chars, n |-> 0]
IntAmount(k) == [t |-> "int", s |-> <<>>, n |-> k]
OtherAmount == [t |-> "other", s |-> <<>>, n |-> 0]

DigitChars == <<"0", "1", "2", "3", "4", "5", "6", "7", "8", "9">>

DigitValue(c) == (CHOOSE i \in DOMAIN DigitChars : DigitChars[i] = c) - 1

IsDigit(c) == \E i \in DOMAIN DigitChars : DigitChars[i] = c

\* int(s) of a string: an optional sign, then one or more decimal digits
\* (surrounding whitespace and digit-group underscores are not in the
\* alphabet of the model); anything else raises ValueError.  A JSON true
\* or false is an int to isinstance: it is the IntAmount 1 or 0.
IntLiteralBody(chars) ==
    IF chars # <<>> /\ Head(chars) \in {"+", "-"} THEN Tail(chars) ELSE chars

IsIntLiteral(chars) ==
    /\ IntLiteralBody(chars) # <<>>
    /\ \A i \in DOMAIN IntLiteralBody(chars) : IsDigit(IntLiteralBody(chars)[i])

RECURSIVE DigitsValue(_)
DigitsValue(chars) ==
    IF chars = <<>> THEN 0
    ELSE 10 * DigitsValue(SubSeq(chars, 1, Len(chars) - 1))
             + DigitValue(chars[Len(chars)])

IntOfLiteral(chars) ==
    IF chars # <<>> /\ Head(chars) = "-"
    THEN 0 - DigitsValue(IntLiteralBody(chars))
    ELSE DigitsValue(IntLiteralBody(chars))

\* parse_pft_amount, in drops: [ok |-> FALSE] is the None it returns
parse_pft_amount(amount) ==
    IF amount.t = "str"
    THEN IF IsIntLiteral(amount.s)
         THEN [ok |-> TRUE, drops |-> IntOfLiteral(amount.s)]
         ELSE [ok |-> FALSE, drops |-> 0]
    ELSE IF amount.t = "int"
         THEN [ok |-> TRUE, drops |-> amount.n]
         ELSE [ok |-> FALSE, drops |-> 0]

unix_from_ripple(ripple_ts) == ripple_ts + RIPPLE_EPOCH

SECONDS_PER_DAY == 86400

\* the day key of a close time: the UTC calendar day, or "unknown"
DayOf(close_time) ==
    IF close_time # 0 /\ unix_from_ripple(close_time) # 0
    THEN [known |-> TRUE, day |-> unix_from_ripple(close_time) \div SECONDS_PER_DAY]
    ELSE [known |-> FALSE, day |-> 0]

TimestampOf(close_time) ==
    IF close_time # 0 THEN unix_from_ripple(close_time) ELSE 0

(***************************************************************************)
(* analyze_reward_transactions: the loop over txs (lines 132-169).         *)
(* rewards_by_recipient and rewards_by_day are insertion-ordered dicts: a  *)
(* sequence of entries with distinct keys.                                 *)
(***************************************************************************)
HasKey(d, k) == \E i \in DOMAIN d : d[i].key = k

KeyIndex(d, k) == CHOOSE i \in DOMAIN d : d[i].key = k

\* d[k] += amt with a defaultdict: count counts the additions
DictAdd(d, k, amt) ==
    IF HasKey(d, k)
    THEN [d EXCEPT ![KeyIndex(d, k)] =
              [key |-> k, amt |-> @.amt + amt, count |-> @.count + 1]]
    ELSE Append(d, [key |-> k, amt |-> amt, count |-> 1])

EmptyAgg ==
    [participants |-> {}, rewards_by_recipient |-> <<>>, rewards_by_day |-> <<>>,
     total_pft |-> 0, reward_list |-> <<>>]

IsRewardSource(acct) ==
    \E i \in DOMAIN REWARD_ADDRESSES : REWARD_ADDRESSES[i] = acct

IsMemoAddressOnly(recipient) == recipient = MEMO_ADDRESS

IsSystemAccount(recipient) == recipient \in SYSTEM_ACCOUNTS

Recipient(tx) == IF tx.Destination = None THEN "" ELSE tx.Destination

AggStep(acc, tx) ==
    IF tx.TransactionType # "Payment" THEN acc
    ELSE IF ~IsRewardSource(tx.Account) THEN acc
    ELSE IF ~parse_pft_amount(tx.Amount).ok
            \/ parse_pft_amount(tx.Amount).drops <= 0 THEN acc
    ELSE IF IsSystemAccount(Recipient(tx)) THEN acc
    ELSE [participants |-> acc.participants \cup {Recipient(tx)},
          rewards_by_recipient |->
              DictAdd(acc.rewards_by_recipient, Recipient(tx),
                      parse_pft_amount(tx.Amount).drops),
          rewards_by_day |->
              DictAdd(acc.rewards_by_day, DayOf(tx.date),
                      parse_pft_amount(tx.Amount).drops),
          total_pft |-> acc.total_pft + parse_pft_amount(tx.Amount).drops,
          reward_list |->
              Append(acc.reward_list,
                     [recipient |-> Recipient(tx),
                      pft |-> parse_pft_amount(tx.Amount).drops,
                      timestamp |-> TimestampOf(tx.date),
                      date |-> DayOf(tx.date)])]

RECURSIVE AggLoop(_, _)
AggLoop(acc, txs) ==
    IF txs = <<>> THEN acc ELSE AggLoop(AggStep(acc, Head(txs)), Tail(txs))

(***************************************************************************)
(* fetch_account_balance (lines 75-87), in drops.  A result either carries *)
(* an error or account_data whose Balance is a tagged value; an absent     *)
(* account_data or Balance reads as the string "0".                        *)
(***************************************************************************)
NotFoundSentinel(result) == 0 - 1

BalanceOnError(result) == 0

AbsentBalance == [t |-> "absent", s |-> <<>>, n |-> 0]

\* account_data.get("Balance", "0")
BalanceField(result) ==
    IF result.Balance.t = "absent" THEN StrAmount(<<"0">>) ELSE result.Balance

fetch_account_balance(result) ==
    IF result.error THEN BalanceOnError(result)
    ELSE IF BalanceField(result).t = "str"
         THEN IF IsIntLiteral(BalanceField(result).s)
              THEN IntOfLiteral(BalanceField(result).s)
              ELSE 0
         ELSE IF BalanceField(result).t = "int" THEN BalanceField(result).n
         ELSE 0

(***************************************************************************)
(* The leaderboard and the summary (lines 179-206).  round(x, 2) of an     *)
(* amount of drops is a number of hundredths of a PFT; the sample amounts  *)
(* are never exactly half way between two hundredths, where round()        *)
(* depends on the binary representation.                                   *)
(***************************************************************************)
Round2(drops) == (drops + DROPS_PER_PFT \div 200) \div (DROPS_PER_PFT \div 100)

BalanceOf(bals, addr) ==
    IF HasKey(bals, addr) THEN bals[KeyIndex(bals, addr)].amt ELSE 0

LeaderboardEntries(acc, bals) ==
    [i \in DOMAIN acc.rewards_by_recipient |->
        [address |-> acc.rewards_by_recipient[i].key,
         total_pft |-> Round2(acc.rewards_by_recipient[i].amt),
         balance |-> Round2(BalanceOf(bals, acc.rewards_by_recipient[i].key))]]

\* key=lambda x: (x["balance"], x["total_pft"]): a's key is below b's
KeyLess(a, b) ==
    \/ a.balance < b.balance
    \/ a.balance = b.balance /\ a.total_pft < b.total_pft

\* sorted(..., reverse=True) is stable: x goes after the entries whose key
\* is not below its own
RECURSIVE InsertDesc(_, _)
InsertDesc(sorted, x) ==
    IF sorted = <<>> THEN <<x>>
    ELSE IF KeyLess(Head(sorted), x) THEN <<x>> \o sorted
    ELSE <<Head(sorted)>> \o InsertDesc(Tail(sorted), x)

RECURSIVE SortedDesc(_)
SortedDesc(entries) ==
    IF entries = <<>> THEN <<>>
    ELSE InsertDesc(SortedDesc(SubSeq(entries, 1, Len(entries) - 1)),
                    entries[Len(entries)])

\* the day keys as strings: a date is below "unknown"
DayLess(a, b) ==
    \/ a.known /\ ~b.known
    \/ a.known /\ b.known /\ a.day < b.day

RECURSIVE InsertDay(_, _)
InsertDay(sorted, x) ==
    IF sorted = <<>> THEN <<x>>
    ELSE IF DayLess(x.key, Head(sorted).key) THEN <<x>> \o sorted
    ELSE <<Head(sorted)>> \o InsertDay(Tail(sorted), x)

RECURSIVE SortedDays(_)
SortedDays(entries) ==
    IF entries = <<>> THEN <<>>
    ELSE InsertDay(SortedDays(SubSeq(entries, 1, Len(entries) - 1)),
                   entries[Len(entries)])

TakeAll(s, n) == s

\* s[:n]
Take(s, n) == SubSeq(s, 1, IF Len(s) < n THEN Len(s) ELSE n)

RECENT_N == 50

Summary(acc, bals) ==
    [total_pft_distributed |-> Round2(acc.total_pft),
     unique_recipients |-> Cardinality(acc.participants),
     total_reward_transactions |-> Len(acc.reward_list),
     leaderboard |-> Take(SortedDesc(LeaderboardEntries(acc, bals)), TOP_N),
     daily_activity |->
         [i \in DOMAIN acc.rewards_by_day |->
             [date |-> SortedDays(acc.rewards_by_day)[i].key,
              pft |-> Round2(SortedDays(acc.rewards_by_day)[i].amt),
              tx_count |-> SortedDays(acc.rewards_by_day)[i].count]],
     recent_rewards |-> Take(acc.reward_list, RECENT_N)]

\* lines 125-169: the whole loop runs without suspension
AnalyzeLoop ==
    /\ pc = "an_start"
    /\ agg' = AggLoop(EmptyAgg, reward_txs)
    /\ bal_i' = 1
    /\ balances' = <<>>
    /\ pc' = "bal_loop"
    /\ UNCHANGED <<max_txs, output, fetchVars, ws_pending, reqLog, respLog,
                   mainVars, rewards, failure, srv>>

\* lines 174-175: the next account_info request, or lines 179-206
BalanceLoop ==
    /\ pc = "bal_loop"
    /\ IF bal_i <= Len(agg.rewards_by_recipient)
       THEN /\ ws_pending' =
                   Append(ws_pending,
                          Payload("account_info",
                                  agg.rewards_by_recipient[bal_i].key, 0, None))
            /\ reqLog' =
                   Append(reqLog,
                          Payload("account_info",
                                  agg.rewards_by_recipient[bal_i].key, 0, None))
            /\ pc' = AwaitLabel("bal_loop")
            /\ UNCHANGED rewards
       ELSE /\ rewards' = Summary(agg, balances)
            /\ pc' = "an_return"
            /\ UNCHANGED <<ws_pending, reqLog>>
    /\ UNCHANGED <<max_txs, output, fetchVars, respLog, mainVars, agg, bal_i,
                   balances, failure, srv>>

\* line 175: balances[addr] = the balance read from the response
BalanceRecv(result) ==
    /\ pc = "bal_loop_wait"
    /\ ws_pending # <<>>
    /\ Head(ws_pending).command = "account_info"
    /\ ws_pending' = Tail(ws_pending)
    /\ respLog' = Append(respLog, result)
    /\ balances' = Append(balances,
                          [key |-> Head(ws_pending).account,
                           amt |-> fetch_account_balance(result),
                           count |-> 1])
    /\ bal_i' = bal_i + 1
    /\ pc' = "bal_loop"
    /\ UNCHANGED <<max_txs, output, fetchVars, reqLog, mainVars, agg, rewards,
                   failure, srv>>

(***************************************************************************)
(* main (lines 280-351).  The report carries the ledger index, the fetch   *)
(* counts and the reward summary; the submission summary, a pure function  *)
(* of memo_txs, is left out of it.                                         *)
(***************************************************************************)
AccountAt(i) ==
    IF i <= Len(REWARD_ADDRESSES) THEN REWARD_ADDRESSES[i] ELSE MEMO_ADDRESS

NumAccounts == Len(REWARD_ADDRESSES) + 1

\* line 290: websockets.connect succeeds
Connect ==
    /\ pc = "m_connect"
    /\ pc' = "m_ledger"
    /\ UNCHANGED <<max_txs, output, fetchVars, ws_pending, reqLog, respLog,
                   mainVars, analyzeVars, failure, srv>>

\* line 290: websockets.connect raises (the endpoint cannot be reached)
ConnectFail ==
    /\ pc = "m_connect"
    /\ pc' = "failed"
    /\ failure' = "connect"
    /\ UNCHANGED <<max_txs, output, fetchVars, ws_pending, reqLog, respLog,
                   mainVars, analyzeVars, srv>>

\* line 292: the ledger_current request
MainLedger ==
    /\ pc = "m_ledger"
    /\ ws_pending' = Append(ws_pending, Payload("ledger_current", None, 0, None))
    /\ reqLog' = Append(reqLog, Payload("ledger_current", None, 0, None))
    /\ pc' = AwaitLabel("m_ledger")
    /\ UNCHANGED <<max_txs, output, fetchVars, respLog, mainVars, analyzeVars,
                   failure, srv>>

\* line 293
LedgerRecv(result) ==
    /\ pc = "m_ledger_wait"
    /\ ws_pending # <<>>
    /\ Head(ws_pending).command = "ledger_current"
    /\ ws_pending' = Tail(ws_pending)
    /\ respLog' = Append(respLog, result)
    /\ ledger_index' = result.ledger_current_index
    /\ pc' = "m_accounts"
    /\ UNCHANGED <<max_txs, output, fetchVars, reqLog, acctIdx, reward_txs,
                   memo_txs, primary_out, analyzeVars, failure, srv>>

\* lines 297-299 and 305: the call of fetch_all_account_tx for the next
\* account, or line 310 after the last one
MainStartFetch ==
    /\ pc = "m_accounts"
    /\ IF acctIdx <= NumAccounts
       THEN /\ account' = AccountAt(acctIdx)
            /\ all_txs' = <<>>
            /\ marker' = None
            /\ pc' = "fa_loop"
       ELSE /\ pc' = "an_start"
            /\ UNCHANGED <<account, all_txs, marker>>
    /\ UNCHANGED <<max_txs, output, ws_pending, reqLog, respLog, mainVars,
                   analyzeVars, failure, srv>>

\* lines 299-300 and 305: the list fetch_all_account_tx returned
MainCollect ==
    /\ pc = "fa_return"
    /\ IF acctIdx <= Len(REWARD_ADDRESSES)
       THEN /\ reward_txs' = reward_txs \o all_txs
            /\ UNCHANGED memo_txs
       ELSE /\ memo_txs' = all_txs
            /\ UNCHANGED reward_txs
    /\ acctIdx' = acctIdx + 1
    /\ pc' = "m_accounts"
    /\ UNCHANGED <<max_txs, output, fetchVars, ws_pending, reqLog, respLog,
                   ledger_index, primary_out, analyzeVars, failure, srv>>

Report ==
    [ledger_index |-> ledger_index,
     reward_txs_fetched |-> Len(reward_txs),
     memo_txs_fetched |-> Len(memo_txs),
     rewards |-> rewards]

\* lines 344-351: the report goes to the file or to standard output in one
\* write; an output path that cannot be created or written raises here
MainOutput ==
    /\ pc = "an_return"
    /\ IF output = "file_bad"
       THEN /\ pc' = "failed"
            /\ failure' = "output"
            /\ UNCHANGED primary_out
       ELSE /\ primary_out' = Append(primary_out, Report)
            /\ pc' = "done"
            /\ UNCHANGED failure
    /\ UNCHANGED <<max_txs, output, fetchVars, ws_pending, reqLog, respLog,
                   acctIdx, ledger_index, reward_txs, memo_txs, analyzeVars, srv>>

SwallowTransportError(site) == "an_start"

\* no try/except anywhere: an exception of rpc_call leaves main, the
\* connection is closed and asyncio.run raises (exit status 1)
OnTransportError(site) == "failed"

\* ws.send, ws.recv or json.loads raises for the request in flight
TransportFail ==
    /\ ws_pending # <<>>
    /\ failure = "none"
    /\ ws_pending' = <<>>
    /\ failure' = "transport"
    /\ pc' = OnTransportError(pc)
    /\ UNCHANGED <<max_txs, output, fetchVars, reqLog, respLog, mainVars,
                   analyzeVars, srv>>

ExitStatus == IF pc = "failed" THEN 1 ELSE 0

(***************************************************************************)
(* The inputs of the analysis model.  The sample transactions vary one     *)
(* field of a qualifying payment at a time; the ranked lists pay many      *)
(* distinct recipients, whose balances a fixed ledger decides.             *)
(***************************************************************************)
Tx(type, acct, amount, dest, date) ==
    [TransactionType |-> type, Account |-> acct, Amount |-> amount,
     Destination |-> dest, date |-> date]

TxSamples ==
    { Tx("Payment", REWARD_ADDRESSES[1],
         StrAmount(<<"2", "0", "0", "0", "0", "0", "0">>), "rUser1", 1),
      Tx("Payment", REWARD_ADDRESSES[1],
         StrAmount(<<"5", "0", "0", "0", "0", "0">>), "rUser1", 1),
      Tx("Payment", REWARD_ADDRESSES[2], IntAmount(30000), "rUser2", SECONDS_PER_DAY),
      Tx("Payment", REWARD_ADDRESSES[4], StrAmount(<<"+", "7">>), None, 0),
      Tx("OfferCreate", REWARD_ADDRESSES[1], StrAmount(<<"9">>), "rUser1", 1),
      Tx(None, REWARD_ADDRESSES[1], StrAmount(<<"9">>), "rUser1", 1),
      Tx("Payment", "rUser3", StrAmount(<<"9">>), "rUser1", 1),
      Tx("Payment", MEMO_ADDRESS, StrAmount(<<"9">>), "rUser2", 1),
      Tx("Payment", REWARD_ADDRESSES[1], StrAmount(<<"-", "5">>), "rUser1", 1),
      Tx("Payment", REWARD_ADDRESSES[1], StrAmount(<<"0">>), "rUser1", 1),
      Tx("Payment", REWARD_ADDRESSES[1], StrAmount(<<"1", ".", "5">>), "rUser1", 1),
      Tx("Payment", REWARD_ADDRESSES[3], OtherAmount, "rUser2", 1),
      Tx("Payment", REWARD_ADDRESSES[1], StrAmount(<<"9">>), REWARD_ADDRESSES[2], 1),
      Tx("Payment", REWARD_ADDRESSES[3], IntAmount(9), MEMO_ADDRESS, 1) }

SampleLists == UNION {[1..k -> TxSamples] : k \in 0..MaxTxs}

RECURSIVE ToChars(_)
ToChars(k) ==
    IF k < 10 THEN <<DigitChars[k + 1]>>
    ELSE Append(ToChars(k \div 10), DigitChars[(k % 10) + 1])

RECURSIVE ToStr(_)
ToStr(k) ==
    IF k < 10 THEN DigitChars[k + 1]
    ELSE ToStr(k \div 10) \o DigitChars[(k % 10) + 1]

UserAddr(i) == "rUser" \o ToStr(i)

UserIndex(addr) == CHOOSE i \in 1..MaxRecip : UserAddr(i) = addr

RankedList(n, l) ==
    [i \in 1..n |->
        Tx("Payment", REWARD_ADDRESSES[(i % 4) + 1],
           IntAmount((((i * (l + 1)) % 4) + 1) * 7000), UserAddr(i), i)]
    \o (IF n > 0 /\ l % 2 = 0
        THEN <<Tx("Payment", REWARD_ADDRESSES[1], IntAmount(6000), UserAddr(1), 1)>>
        ELSE <<>>)

\* the balance, in drops, of user i in the fixed ledger l; 0: never funded
LedgerBalance(l, i) == ((i * (l + 2)) % 5) * 6000

ErrorResult == [error |-> TRUE, Balance |-> AbsentBalance]

BalanceResult(b) == [error |-> FALSE, Balance |-> b]

\* the account_info results a node can give for an address
AccountInfoResults(node, addr) ==
    IF node.fixed
    THEN IF LedgerBalance(node.ledger, UserIndex(addr)) = 0
         THEN {ErrorResult}
         ELSE {BalanceResult(
                   StrAmount(ToChars(LedgerBalance(node.ledger, UserIndex(addr)))))}
    ELSE {ErrorResult,
          BalanceResult(StrAmount(<<"1", "5", "0", "0", "0", "0", "0">>)),
          BalanceResult(StrAmount(<<"a", "b", "c">>)),
          BalanceResult(IntAmount(20000)),
          BalanceResult(AbsentBalance)}

\* the account_tx history of account number a in the fixed ledger l
HistoryLen(l, a) == (l + a) % (MaxPage + 2)

History(l, a) ==
    [j \in 1..HistoryLen(l, a) |->
        IF a <= Len(REWARD_ADDRESSES)
        THEN Tx("Payment", REWARD_ADDRESSES[a], IntAmount(7000 * j),
                UserAddr(((a + j) % 3) + 1), j)
        ELSE Tx("Payment", UserAddr(j), IntAmount(1), MEMO_ADDRESS, j)]

AccountNumber(acct) == CHOOSE a \in 1..NumAccounts : AccountAt(a) = acct

\* a fixed ledger's marker names the place the next page starts after
MarkerAt(pos) == "m" \o ToStr(pos)

MarkerPos(mk) ==
    IF mk = None THEN 0 ELSE CHOOSE pos \in 1..(MaxPage + 1) : MarkerAt(pos) = mk

LedgerPage(h, pos) ==
    [transactions |->
         SubSeq(h, pos + 1, IF pos + MaxPage < Len(h) THEN pos + MaxPage ELSE Len(h)),
     marker |-> IF pos + MaxPage < Len(h) THEN MarkerAt(pos + MaxPage) ELSE None]

\* the account_tx results a node can give for a request
AccountTxResults(node, payload) ==
    IF node.fixed
    THEN {LedgerPage(History(node.ledger, AccountNumber(payload.account)),
                     MarkerPos(payload.marker))}
    ELSE {[transactions |-> PageOf(Len(reqLog), k), marker |-> mk] :
              k \in 0..MaxPage, mk \in Markers}

ServerPage ==
    \E result \in (IF ws_pending # <<>> /\ Head(ws_pending).command = "account_tx"
                   THEN AccountTxResults(srv, Head(ws_pending))
                   ELSE {}) :
        FetchRecv(result)

ServerLedger ==
    \E k \in {0, 100} : LedgerRecv([ledger_current_index |-> k])

ServerAccountInfo ==
    \E result \in (IF ws_pending # <<>> /\ Head(ws_pending).command = "account_info"
                   THEN AccountInfoResults(srv, Head(ws_pending).account)
                   ELSE {}) :
        BalanceRecv(result)

NoSummary == [leaderboard |-> <<>>]

\* a node whose answers are not fixed in advance
AnyLedger == [fixed |-> FALSE, ledger |-> 0]

InitCommon ==
    /\ ws_pending = <<>>
    /\ reqLog = <<>>
    /\ respLog = <<>>
    /\ all_txs = <<>>
    /\ marker = None
    /\ acctIdx = 1
    /\ ledger_index = 0
    /\ memo_txs = <<>>
    /\ agg = EmptyAgg
    /\ bal_i = 1
    /\ balances = <<>>
    /\ rewards = NoSummary
    /\ primary_out = <<>>
    /\ failure = "none"

InitFetch ==
    /\ InitCommon
    /\ srv = AnyLedger
    /\ reward_txs = <<>>
    /\ pc = "fa_loop"
    /\ max_txs \in -1..MaxCap
    /\ output = "stdout"
    /\ account \in {REWARD_ADDRESSES[1], MEMO_ADDRESS}

NextFetch == FetchLoop \/ ServerPage

SpecFetch == InitFetch /\ [][NextFetch]_vars

\* every request is answered, and the coroutine is resumed when it can run
SpecFetchLive == SpecFetch /\ WF_vars(NextFetch)

InitAnalyze ==
    /\ InitCommon
    /\ pc = "an_start"
    /\ max_txs = MaxCap
    /\ output = "stdout"
    /\ account = None
    /\ \/ /\ srv = AnyLedger
          /\ reward_txs \in SampleLists
       \/ /\ \E n \in 0..MaxRecip, l \in 1..NumLedgers :
                 /\ srv = [fixed |-> TRUE, ledger |-> l]
                 /\ reward_txs = RankedList(n, l)

NextAnalyze == AnalyzeLoop \/ BalanceLoop \/ ServerAccountInfo

SpecAnalyze == InitAnalyze /\ [][NextAnalyze]_vars

InitMain ==
    /\ InitCommon
    /\ pc = "m_connect"
    /\ max_txs \in -1..MaxCap
    /\ output \in {"stdout", "file_ok", "file_bad"}
    /\ account = None
    /\ reward_txs = <<>>
    /\ \E l \in 1..NumLedgers : srv = [fixed |-> TRUE, ledger |-> l]

Next ==
    \/ Connect
    \/ ConnectFail
    \/ MainLedger
    \/ ServerLedger
    \/ MainStartFetch
    \/ FetchLoop
    \/ ServerPage
    \/ MainCollect
    \/ AnalyzeLoop
    \/ BalanceLoop
    \/ ServerAccountInfo
    \/ MainOutput
    \/ TransportFail

Spec == InitMain /\ [][Next]_vars

(***************************************************************************)
(* Claims about fetch_all_account_tx (SpecFetch, SpecFetchLive).           *)
(***************************************************************************)
PageLen(i) == Len(respLog[i].transactions)

\* the accumulated count after the first i pages
CountAfter(i) == SumSeq([j \in 1..i |-> PageLen(j)])

ReceivedRecords == Concat([j \in 1..Len(respLog) |-> respLog[j].transactions])

Max0(n) == IF n > 0 THEN n ELSE 0

\* C1, as stated: every run issues a request first and then stops at the
\* first iteration whose page is empty, or whose accumulated count has
\* reached the cap, or whose result carries no marker: so a fetch that has
\* returned has issued at least one request, and its last page is empty, or
\* the count is at least the cap, or the last result has no marker.
C1_StopsAfterRequestAsStated ==
    pc = "fa_return" =>
        /\ Len(reqLog) >= 1
        /\ Len(respLog) = Len(reqLog)
        /\ \/ Last(respLog).transactions = <<>>
           \/ Len(all_txs) >= max_txs
           \/ Last(respLog).marker = None

\* C1, amended: the cap is tested before each request (no request at all
\* when max_txs <= 0); a request is in flight only while the count is below
\* the cap; after each response the fetch stops when the page is empty or
\* when the returned marker is absent or falsy; it goes on otherwise; the
\* result is the received pages' records in received order; and two pages,
\* the first non-empty with a truthy marker and below the cap, the second
\* with no marker, give exactly two requests.
C1_StopRule ==
    /\ Len(ws_pending) = Len(reqLog) - Len(respLog)
    /\ Len(ws_pending) <= 1
    /\ all_txs = ReceivedRecords
    /\ pc = "fa_loop_wait" => Len(all_txs) < max_txs
    /\ \A i \in 1..Len(respLog) :
           i < Len(reqLog) =>
               /\ respLog[i].transactions # <<>>
               /\ Truthy(respLog[i].marker)
               /\ CountAfter(i) < max_txs
    /\ pc = "fa_return" =>
           /\ Len(reqLog) = Len(respLog)
           /\ IF reqLog = <<>>
              THEN max_txs <= 0
              ELSE \/ Last(respLog).transactions = <<>>
                   \/ ~Truthy(Last(respLog).marker)
                   \/ Len(all_txs) >= max_txs
    /\ (Len(respLog) >= 2 /\ respLog[2].marker = None) =>
           /\ pc = "fa_return"
           /\ Len(reqLog) = 2
           /\ all_txs = respLog[1].transactions \o respLog[2].transactions

C1_TwoPagesFetched ==
    /\ pc = "fa_return"
    /\ Len(reqLog) = 2
    /\ respLog[1].transactions # <<>>
    /\ respLog[2].transactions # <<>>
    /\ respLog[2].marker = None
    /\ max_txs > Len(all_txs)

\* C2: for max_txs >= 0 the returned list has at most max_txs records.
C2_AtMostCap ==
    (pc = "fa_return" /\ max_txs >= 0) => Len(all_txs) <= max_txs

\* C9: the first request carries no marker, request N+1 carries exactly the
\* marker returned with page N, and any returned marker, falsy ones
\* included, is followed: only an empty page, the cap or the absence of a
\* marker ends the fetch.
C9_MarkerChaining ==
    /\ reqLog # <<>> => reqLog[1].marker = None
    /\ \A i \in 2..Len(reqLog) : reqLog[i].marker = respLog[i - 1].marker
    /\ pc = "fa_return" =>
           \A i \in 1..Len(respLog) :
               ( /\ respLog[i].transactions # <<>>
                 /\ respLog[i].marker # None
                 /\ CountAfter(i) < max_txs ) => Len(reqLog) > i

\* C10: the fetch issues at most max(max_txs, 0) page requests and, every
\* request being answered, eventually returns.
C10_Terminates ==
    /\ [](Len(reqLog) <= Max0(max_txs))
    /\ <>(pc = "fa_return")

C10_StoppedByCapOnly ==
    /\ pc = "fa_return"
    /\ max_txs >= 2
    /\ Len(reqLog) = max_txs
    /\ \A i \in 1..Len(respLog) :
           /\ respLog[i].transactions # <<>>
           /\ respLog[i].marker = "m1"

(***************************************************************************)
(* Claims about analyze_reward_transactions (SpecAnalyze).                 *)
(***************************************************************************)
RewardSources == {REWARD_ADDRESSES[i] : i \in DOMAIN REWARD_ADDRESSES}

\* a record that qualifies on its own
Qualifies(tx) ==
    /\ tx.TransactionType = "Payment"
    /\ tx.Account \in RewardSources
    /\ parse_pft_amount(tx.Amount).ok
    /\ parse_pft_amount(tx.Amount).drops > 0
    /\ Recipient(tx) \notin SYSTEM_ACCOUNTS

Drops(tx) == parse_pft_amount(tx.Amount).drops

QualifyingAmount(tx) == IF Qualifies(tx) THEN Drops(tx) ELSE 0

\* the sum of the amounts of the qualifying records of txs, each occurrence
SumOfQualifying(txs) == SumSeq([i \in DOMAIN txs |-> QualifyingAmount(txs[i])])

CountOfQualifying(txs) == Len(SelectSeq(txs, Qualifies))

PaidTo(txs, addr) == SelectSeq(txs, LAMBDA tx : Recipient(tx) = addr)

PaidOn(txs, day) == SelectSeq(txs, LAMBDA tx : DayOf(tx.date) = day)

QualifyingRecipients(txs) ==
    {Recipient(txs[i]) : i \in {j \in DOMAIN txs : Qualifies(txs[j])}}

QualifyingDays(txs) ==
    {DayOf(txs[i].date) : i \in {j \in DOMAIN txs : Qualifies(txs[j])}}

Keys(d) == {d[i].key : i \in DOMAIN d}

\* C3: the grand total, in drops, is the sum of the amounts of exactly the
\* records that qualify on their own, once per occurrence; the per-recipient
\* totals and the daily buckets are the same sums by recipient and by day,
\* and no excluded destination has a total or a leaderboard entry.
C3_TotalIsSumOfQualifying ==
    pc # "an_start" =>
        /\ agg.total_pft = SumOfQualifying(reward_txs)
        /\ Len(agg.reward_list) = CountOfQualifying(reward_txs)
        /\ Keys(agg.rewards_by_recipient) = QualifyingRecipients(reward_txs)
        /\ agg.participants = QualifyingRecipients(reward_txs)
        /\ Keys(agg.rewards_by_recipient) \cap SYSTEM_ACCOUNTS = {}
        /\ \A i \in DOMAIN agg.rewards_by_recipient :
               agg.rewards_by_recipient[i].amt =
                   SumOfQualifying(PaidTo(reward_txs,
                                          agg.rewards_by_recipient[i].key))
        /\ Keys(agg.rewards_by_day) = QualifyingDays(reward_txs)
        /\ \A i \in DOMAIN agg.rewards_by_day :
               /\ agg.rewards_by_day[i].amt =
                      SumOfQualifying(PaidOn(reward_txs, agg.rewards_by_day[i].key))
               /\ agg.rewards_by_day[i].count =
                      CountOfQualifying(PaidOn(reward_txs, agg.rewards_by_day[i].key))
        /\ \A i \in DOMAIN rewards.leaderboard :
               rewards.leaderboard[i].address \notin SYSTEM_ACCOUNTS

\* a qualifying record that occurs twice in the list, counted twice
C3_RepeatedRecord ==
    /\ pc = "an_return"
    /\ Len(reward_txs) = 2
    /\ reward_txs[1] = reward_txs[2]
    /\ Qualifies(reward_txs[1])
    /\ reward_txs[1].Amount.t = "str"
    /\ agg.total_pft = 2 * Drops(reward_txs[1])
    /\ Len(agg.rewards_by_recipient) = 1

\* C6: the lookups go through the distinct recipients in order, one each;
\* a result that carries an error gives a balance of exactly 0 and the pass
\* goes on to the next recipient; at the end every distinct recipient has
\* one lookup and one balance.
C6_ErrorResultIsZeroBalance ==
    pc \in {"bal_loop", "bal_loop_wait", "an_return"} =>
        /\ failure = "none"
        /\ Len(reqLog) <= Len(agg.rewards_by_recipient)
        /\ \A j \in DOMAIN reqLog :
               /\ reqLog[j].command = "account_info"
               /\ reqLog[j].account = agg.rewards_by_recipient[j].key
        /\ \A j, k \in DOMAIN reqLog : reqLog[j].account = reqLog[k].account => j = k
        /\ Len(balances) = Len(respLog)
        /\ \A j \in DOMAIN balances :
               /\ balances[j].key = reqLog[j].account
               /\ respLog[j].error => balances[j].amt = 0
               /\ j < Len(agg.rewards_by_recipient) =>
                      Len(reqLog) > j \/ pc = "bal_loop"
        /\ pc = "an_return" =>
               /\ Keys(balances) = QualifyingRecipients(reward_txs)
               /\ Len(balances) = Cardinality(QualifyingRecipients(reward_txs))
               /\ Len(reqLog) = Cardinality(QualifyingRecipients(reward_txs))

C6_LookupAfterError ==
    /\ pc = "an_return"
    /\ Len(balances) >= 2
    /\ respLog[1].error
    /\ ~respLog[2].error
    /\ balances[1].amt = 0
    /\ balances[2].amt > 0

\* the total and the balance of a recipient, as the leaderboard shows them
ShownTotal(addr) == Round2(SumOfQualifying(PaidTo(reward_txs, addr)))

ShownBalance(addr) == Round2(BalanceOf(balances, addr))

RanksNoHigher(b1, t1, b2, t2) == b1 < b2 \/ (b1 = b2 /\ t1 <= t2)

Listed(lb) == {lb[i].address : i \in DOMAIN lb}

\* C8: with N distinct qualifying recipients the leaderboard has 25 entries
\* when N >= 25 and N entries otherwise, at most one per address, each with
\* the recipient's total and balance, in descending order of (balance,
\* total); a recipient left out ranks no higher than any recipient kept.
C8_LeaderboardTopN ==
    pc = "an_return" =>
        /\ Len(rewards.leaderboard) =
               IF Cardinality(QualifyingRecipients(reward_txs)) >= 25
               THEN 25
               ELSE Cardinality(QualifyingRecipients(reward_txs))
        /\ Listed(rewards.leaderboard) \subseteq QualifyingRecipients(reward_txs)
        /\ \A i, j \in DOMAIN rewards.leaderboard :
               i < j =>
                   /\ rewards.leaderboard[i].address # rewards.leaderboard[j].address
                   /\ RanksNoHigher(rewards.leaderboard[j].balance,
                                    rewards.leaderboard[j].total_pft,
                                    rewards.leaderboard[i].balance,
                                    rewards.leaderboard[i].total_pft)
        /\ \A i \in DOMAIN rewards.leaderboard :
               /\ rewards.leaderboard[i].total_pft =
                      ShownTotal(rewards.leaderboard[i].address)
               /\ rewards.leaderboard[i].balance =
                      ShownBalance(rewards.leaderboard[i].address)
        /\ \A addr \in QualifyingRecipients(reward_txs)
                           \ Listed(rewards.leaderboard) :
               \A i \in DOMAIN rewards.leaderboard :
                   RanksNoHigher(ShownBalance(addr), ShownTotal(addr),
                                 rewards.leaderboard[i].balance,
                                 rewards.leaderboard[i].total_pft)

\* more than 25 recipients, several balances, and a recipient left out
\* that ranks strictly below the last one kept
C8_Truncated ==
    /\ pc = "an_return"
    /\ Cardinality(QualifyingRecipients(reward_txs)) > 25
    /\ Len(rewards.leaderboard) = 25
    /\ rewards.leaderboard[1].balance > rewards.leaderboard[25].balance
    /\ \E addr \in QualifyingRecipients(reward_txs) \ Listed(rewards.leaderboard) :
           ~RanksNoHigher(rewards.leaderboard[25].balance,
                          rewards.leaderboard[25].total_pft,
                          ShownBalance(addr), ShownTotal(addr))

(***************************************************************************)
(* Claims about main (Spec).                                               *)
(***************************************************************************)
AllFetched == acctIdx = NumAccounts + 1

AllLookedUp == Len(balances) = Len(agg.rewards_by_recipient)

\* C4: after a transport failure of any RPC call the run is dead with a
\* non-zero status, the failed request stays the last one sent (no later
\* call, no retry) and nothing is written; the primary output is empty or
\* holds the one complete report, written after every fetch and every
\* balance lookup has been answered.
C4_TransportFailureAborts ==
    /\ failure = "transport" =>
           /\ pc = "failed"
           /\ ExitStatus # 0
           /\ primary_out = <<>>
           /\ ws_pending = <<>>
           /\ Len(reqLog) = Len(respLog) + 1
    /\ Len(primary_out) <= 1
    /\ primary_out # <<>> =>
           /\ pc = "done"
           /\ failure = "none"
           /\ AllFetched
           /\ AllLookedUp
           /\ pc # "an_start"
           /\ Len(reqLog) = Len(respLog)
           /\ ws_pending = <<>>
           /\ primary_out[1] = Report
           /\ primary_out[1].rewards = Summary(AggLoop(EmptyAgg, reward_txs), balances)

\* the last balance lookup fails, after pages of several accounts and an
\* earlier lookup were answered
C4_FailedAtLastLookup ==
    /\ failure = "transport"
    /\ Last(reqLog).command = "account_info"
    /\ Len(balances) >= 1
    /\ Len(balances) + 1 = Len(agg.rewards_by_recipient)
    /\ Len(reward_txs) >= 2
    /\ primary_out = <<>>

\* C5: an invalid output path is detected before the first request: when
\* the run fails on the output path, no RPC request has been issued.
C5_BadOutputFailsBeforeAnyRequest ==
    failure = "output" => reqLog = <<>>

\* the place of a request in the run: ledger_current, then the accounts in
\* list order with the memo collector last, then the balance lookups
Phase(payload) ==
    IF payload.command = "ledger_current" THEN 0
    ELSE IF payload.command = "account_tx" THEN AccountNumber(payload.account)
    ELSE NumAccounts + 1

\* C7: at most one request is in flight; a request is sent only after the
\* previous one was answered; the requests go ledger_current, then all
\* pages of each account in list order, then the balance lookups after the
\* last fetch; no request is sent twice and none after a failed one.
C7_StrictlySequential ==
    /\ Len(ws_pending) <= 1
    /\ Len(reqLog) <= Len(respLog) + 1
    /\ failure = "none" => Len(ws_pending) = Len(reqLog) - Len(respLog)
    /\ failure = "transport" => Len(reqLog) = Len(respLog) + 1
    /\ \A i, j \in DOMAIN reqLog :
           i < j =>
               /\ Phase(reqLog[i]) <= Phase(reqLog[j])
               /\ reqLog[i] # reqLog[j]
    /\ \A i \in DOMAIN reqLog :
           /\ reqLog[i].command = "ledger_current" => i = 1
           /\ reqLog[i].command = "account_tx" =>
                  Phase(reqLog[i]) <= acctIdx
           /\ reqLog[i].command = "account_info" => AllFetched
    /\ \A i \in 2..Len(reqLog) :
           ( /\ reqLog[i].command = "account_tx"
             /\ reqLog[i - 1].account = reqLog[i].account )
               => reqLog[i].marker = respLog[i - 1].marker
    /\ \A i \in 2..Len(reqLog) :
           ( /\ reqLog[i].command = "account_tx"
             /\ reqLog[i - 1].account # reqLog[i].account )
               => reqLog[i].marker = None

\* a finished run with two pages of one account and two balance lookups
C7_PagesAndLookups ==
    /\ pc = "done"
    /\ \E i \in 2..Len(reqLog) :
           /\ reqLog[i].command = "account_tx"
           /\ reqLog[i].account = reqLog[i - 1].account
           /\ reqLog[i - 1].command = "account_tx"
    /\ Len(balances) >= 2
    /\ \E i \in DOMAIN reqLog :
           reqLog[i].command = "account_tx" /\ reqLog[i].account = MEMO_ADDRESS

====
